---- MODULE Spec2Model ----
(***************************************************************************)
(* plexrr: the SFTP transfer engine of src/services/transferService.js     *)
(* (transferFile) with the rate limiter of src/utils/ThrottledStream.js.   *)
(*                                                                         *)
(* One transferFile call is modelled event by event: every action is one   *)
(* callback of the source (a connection event, one await of the 'ready'    *)
(* handler, a stream event), run to completion as Node runs it.            *)
(*                                                                         *)
(* Sizes are counted in blocks of 32 KiB, so CHUNK_SIZE (64 KiB) is 2.     *)
(* The remote object of n blocks is <<1, ..., n>>: the block at offset k   *)
(* (0-based) is k + 1, so a block written at the wrong place is visible.   *)
(* Block 0 is local content that is not the remote's.                      *)
(***************************************************************************)
EXTENDS Integers, Sequences, FiniteSets, TLC

\* ------------------------------------------------------------- bounds
\* Largest remote object of the general specification (blocks).
MaxRemoteSize == 3
\* Number of transferFile calls (program runs) on the same path.
MaxAttempts == 2
\* Remote object of the long-transfer specification (blocks).
LongRemoteSize == 33
\* The limiter on its own: the clock runs to MaxTime (ms) and the source
\* writes up to MaxChunks chunks.
MaxTime == 6
MaxChunks == 3
\* Longest text of the TRANSFER_SPEED_LIMIT setting.
\* Size, in blocks, of the remote object whose download is sampled.
MaxMeterSize == 13
\* Formatter arguments: days of an ETA, powers of 1024 of a speed.
MaxDays == 2
MaxSpeedExp == 4
\* Largest remote object, in blocks, fetched over the HTTP transport.
MaxHttpSize == 5
MaxEnvLen == 3

\* ---------------------------------------------------------- constants
\* TRANSFER_CONSTANTS.CHUNK_SIZE = 64 * 1024, in 32-KiB blocks; it is the
\* highWaterMark of the read stream and of the write stream.
CHUNK_SIZE == 2
\* axiosRetry(axiosInstance, {retries: 3, ...})
retries == 3
SPEED_SAMPLE_SIZE == 10
MAX_CONCURRENT_CHUNKS == 32
\* ThrottledStream calls super() with no options: its writable side has the
\* stream default highWaterMark (16 KiB), at most one block.
THROTTLE_HWM == 1

VARIABLES
    remoteSize,     \* remoteStats.size of the (unchanged) remote object
    speedLimit,     \* CONFIG.TRANSFER_SPEED_LIMIT is set
    disk,           \* the local path: [exists, bytes]
    disk0,          \* disk when the current transferFile call began
    attempt,        \* number of the current transferFile call
    pc,             \* position of the call: connection / 'ready' handler
    conn,           \* the ssh2 Client: "open" | "ended"
    promise,        \* the promise transferFile returned: [state, value]
    startPosition,  \* const startPosition
    activeChunks,   \* let activeChunks
    transferred,    \* let transferred
    rs,             \* readStream
    ts,             \* throttledStream
    ws,             \* writeStream
    signal,         \* the caller's cancellation signal: "none" | "aborted"
    localDir,       \* path.dirname(localFilePath) exists
    thrownAt,       \* the await at which the 'ready' handler threw, or "none"
    lim,            \* a ThrottledStream on its own, with its clock
    cfg,            \* the environment setting and the CONFIG loaded from it
    two,            \* two transferFile calls on one local path
    meter,          \* the speed sampling of the 'data' handler
    fmt,            \* a formatter call: its argument and what it returned
    http,           \* a transfer over the HTTP ranged transport
    req             \* a catalog request of the axios instance and its retries

\* The variables of a transferFile call.
callVars == <<remoteSize, speedLimit, disk, disk0, attempt, pc, conn,
              promise, startPosition, activeChunks, transferred, rs, ts, ws,
              signal, localDir, thrownAt>>

\* The variables of the models that stand apart from a transferFile call.
otherVars == <<two, meter, fmt, http, req>>

vars == <<callVars, lim, cfg, otherVars>>

\* ------------------------------------------------------------ helpers
Min(a, b) == IF a < b THEN a ELSE b

Remote(n) == [i \in 1..n |-> i]

\* The blocks of the chunk read at offset off with length len.
ChunkBytes(c) == [i \in 1..c.len |-> c.off + i]

RECURSIVE TotalLen(_)
TotalLen(q) == IF q = <<>> THEN 0 ELSE Head(q).len + TotalLen(Tail(q))

IsPrefix(a, b) == Len(a) <= Len(b) /\ a = SubSeq(b, 1, Len(a))

NoFile == [exists |-> FALSE, bytes |-> <<>>]
File(b) == [exists |-> TRUE, bytes |-> b]

\* Local files a call may find: none, a prefix of the remote object (a
\* partial or complete earlier download), the remote object followed by
\* junk (longer than the remote), or junk.
LocalFiles(n) ==
    {NoFile} \cup {File(SubSeq(Remote(n), 1, k)) : k \in 0..n}
             \cup {File(Remote(n) \o <<0>>), File(<<0>>)}

Pending == [state |-> "pending", value |-> "none"]

\* A promise whose resolve and reject would overwrite a reported outcome.
Settle_Overwrites(p, state, value) == [state |-> state, value |-> value]

\* new Promise: resolve and reject settle it once; later calls are no-ops.
Settle(p, state, value) ==
    IF p.state = "pending" THEN [state |-> state, value |-> value] ELSE p

\* The own fields of the value a settled promise hands to the caller: the
\* skip result is the object {status, message}, success is the string
\* 'Transfer complete!' and every failure is an Error, which has a message.
ResultFields(value) ==
    CASE value = "skipped" -> {"status", "message"}
      [] value = "complete" -> {}
      [] value \in {"stream_error", "connection_error", "timeout"} -> {"message"}
      [] OTHER -> {}

NoRead == [created |-> FALSE, start |-> 0, pos |-> 0, flowing |-> FALSE,
           ended |-> FALSE, destroyed |-> FALSE]
NoThrottle == [queue |-> <<>>, busy |-> FALSE, ending |-> FALSE]
\* The limiter and the setting while a transferFile call is looked at.
NoLimiter == [bytesPerSecond |-> 0]
Unset == [set |-> FALSE, text |-> <<>>]
null == [kind |-> "null", n |-> 0]
NaN == [kind |-> "NaN", n |-> 0]
Number(n) == [kind |-> "number", n |-> n]
NoConfig == [env |-> Unset, step |-> "none", TRANSFER_SPEED_LIMIT |-> null,
             throttled |-> FALSE, bytesPerSecond |-> 0]

NoWrite == [created |-> FALSE, flags |-> "w", buf |-> <<>>,
            needDrain |-> FALSE, ending |-> FALSE, finished |-> FALSE,
            closed |-> FALSE, errored |-> FALSE, errPending |-> FALSE,
            destroyed |-> FALSE, accepted |-> 0, flushed |-> 0]

\* No second call, no sampling and no formatter call are modelled.
NoTwo == [step |-> "none"]

NoMeter == [step |-> "none"]

NoFormat == [step |-> "none"]

NoHttp == [step |-> "none"]

NoRequest == [step |-> "none"]

OthersIdle ==
    /\ two = NoTwo
    /\ meter = NoMeter
    /\ fmt = NoFormat
    /\ http = NoHttp
    /\ req = NoRequest

\* ---------------------------------------------------------------- Init
InitCall ==
    /\ pc = "connecting"
    /\ conn = "open"
    /\ promise = Pending
    /\ startPosition = 0
    /\ activeChunks = 0
    /\ transferred = 0
    /\ rs = NoRead
    /\ ts = NoThrottle
    /\ ws = NoWrite
    /\ signal = "none"
    /\ thrownAt = "none"

Init ==
    /\ remoteSize \in 0..MaxRemoteSize
    /\ speedLimit \in BOOLEAN
    /\ disk \in LocalFiles(remoteSize)
    /\ disk0 = disk
    /\ attempt = 1
    /\ InitCall
    /\ localDir \in {d \in BOOLEAN : disk.exists => d}
    /\ lim = NoLimiter
    /\ cfg = NoConfig
    /\ OthersIdle

\* ------------------------------------------------ connection handlers
\* An 'error' handler that ends the connection and reports nothing.
ConnError_EndsOnly ==
    /\ conn = "open"
    /\ conn' = "ended"
    /\ promise' = promise
    /\ UNCHANGED <<lim, cfg, otherVars, signal, localDir, thrownAt, remoteSize, speedLimit, disk, disk0, attempt, pc,
                   startPosition, activeChunks, transferred, rs, ts, ws>>

\* conn.on('error'): conn.end(); reject(SSH Connection failed).
ConnError ==
    /\ conn = "open"
    /\ conn' = "ended"
    /\ promise' = Settle(promise, "rejected", "connection_error")
    /\ UNCHANGED <<lim, cfg, otherVars, signal, localDir, thrownAt, remoteSize, speedLimit, disk, disk0, attempt, pc,
                   startPosition, activeChunks, transferred, rs, ts, ws>>

\* conn.on('timeout'): conn.end(); reject(SSH Connection timed out). The
\* ready timeout runs while the connection is being set up.
ConnTimeout ==
    /\ conn = "open"
    /\ pc = "connecting"
    /\ conn' = "ended"
    /\ promise' = Settle(promise, "rejected", "timeout")
    /\ UNCHANGED <<lim, cfg, otherVars, signal, localDir, thrownAt, remoteSize, speedLimit, disk, disk0, attempt, pc,
                   startPosition, activeChunks, transferred, rs, ts, ws>>

\* ------------------------------------------------- the 'ready' handler
\* The catch of the async 'ready' handler: conn.end(), then throw. The throw
\* rejects the promise of the async handler itself, which nobody holds; the
\* promise transferFile returned is not touched.
SetupCatch ==
    /\ pc' = "thrown"
    /\ thrownAt' = pc
    /\ conn' = "ended"
    /\ promise' = promise

\* One await of the handler that does not end the setup: on success the
\* handler goes on to `next`, on failure to the catch. A request over a
\* connection that is gone cannot succeed.
SetupStep(here, next, remote) ==
    /\ pc = here
    /\ \E ok \in BOOLEAN :
         /\ (ok /\ remote) => conn = "open"
         /\ IF ok
            THEN /\ pc' = next
                 /\ UNCHANGED <<conn, promise, thrownAt>>
            ELSE SetupCatch
    /\ UNCHANGED <<lim, cfg, otherVars, signal, localDir, remoteSize, speedLimit, disk, disk0, attempt,
                   startPosition, activeChunks, transferred, rs, ts, ws>>

\* conn.on('ready') fires.
ConnReady ==
    /\ pc = "connecting"
    /\ conn = "open"
    /\ pc' = "sftp"
    /\ UNCHANGED <<lim, cfg, otherVars, signal, localDir, thrownAt, remoteSize, speedLimit, disk, disk0, attempt, conn,
                   promise, startPosition, activeChunks, transferred,
                   rs, ts, ws>>

\* await conn.sftp(...)
SftpSession == SetupStep("sftp", "stat1", TRUE)
\* The existence check with the directory of the local file made before
\* the remote file is looked at.
RemoteStat_MkdirFirst ==
    /\ pc = "stat1"
    /\ localDir' = TRUE
    /\ \E ok \in BOOLEAN :
         /\ ok => conn = "open"
         /\ IF ok
            THEN /\ pc' = "mkdir"
                 /\ UNCHANGED <<conn, promise, thrownAt>>
            ELSE SetupCatch
    /\ UNCHANGED <<lim, cfg, otherVars, signal, remoteSize, speedLimit, disk, disk0, attempt,
                   startPosition, activeChunks, transferred, rs, ts, ws>>

\* await sftp.stat(remoteFilePath): the remote existence check
RemoteStat == SetupStep("stat1", "mkdir", TRUE)
\* await fs.promises.mkdir(localDir, {recursive: true})
Mkdir ==
    /\ pc = "mkdir"
    /\ \E ok \in BOOLEAN :
         IF ok
         THEN /\ pc' = "stat2"
              /\ localDir' = TRUE
              /\ UNCHANGED <<conn, promise, thrownAt>>
         ELSE /\ SetupCatch
              /\ localDir' = localDir
    /\ UNCHANGED <<lim, cfg, otherVars, signal, remoteSize, speedLimit, disk, disk0, attempt,
                   startPosition, activeChunks, transferred, rs, ts, ws>>
\* await sftp.stat(remoteFilePath): remoteStats
RemoteStat2 == SetupStep("stat2", "resume", TRUE)

\* getResumePosition: stats.size, or 0 when fs.promises.stat throws for
\* whatever reason. statThrows: stat of an existing file failed (EACCES,
\* EIO, ...); stat of a missing file always throws (ENOENT).
getResumePosition(d, statThrows) ==
    IF d.exists /\ ~statThrows THEN Len(d.bytes) ELSE 0

\* if (startPosition >= fileSize)
SkipCheck(start, fileSize) == start >= fileSize

\* flags: startPosition ? 'a' : 'w'
OpenFlags(start) == IF start # 0 THEN "a" ELSE "w"

\* sftp.createReadStream(remoteFilePath, {start: startPosition, ...})
ReadStreamStart(start) == start

\* What opening the local file does to it: 'w' creates or truncates, 'a'
\* creates a missing file and keeps an existing one.
OpenFile(d, flags) ==
    IF flags = "w" THEN File(<<>>)
    ELSE IF d.exists THEN d ELSE File(<<>>)

\* The last await (getResumePosition) and the synchronous rest of the
\* handler: the skip check, or the creation of both streams and the
\* registration of their handlers. fs.createWriteStream opens the file at
\* once; openOk is whether that open succeeds (a failed open is reported by
\* the write stream's 'error' event).
ResumeAndOpen ==
    /\ pc = "resume"
    /\ \E statThrows \in BOOLEAN, openOk \in BOOLEAN :
         LET start == getResumePosition(disk, statThrows)
             flags == OpenFlags(start)
         IN  /\ startPosition' = start
             /\ IF SkipCheck(start, remoteSize)
                THEN /\ conn' = "ended"
                     /\ promise' = Settle(promise, "resolved", "skipped")
                     /\ pc' = "skipped"
                     /\ UNCHANGED <<disk, transferred, rs, ws>>
                ELSE /\ pc' = "streaming"
                     /\ transferred' = start
                     /\ rs' = [NoRead EXCEPT !.created = TRUE,
                                             !.start = ReadStreamStart(start),
                                             !.pos = ReadStreamStart(start),
                                             !.flowing = TRUE]
                     /\ ws' = [NoWrite EXCEPT !.created = TRUE,
                                              !.flags = flags,
                                              !.errored = ~openOk,
                                              !.errPending = ~openOk,
                                              !.destroyed = ~openOk]
                     /\ disk' = IF openOk THEN OpenFile(disk, flags) ELSE disk
                     /\ UNCHANGED <<conn, promise>>
    /\ UNCHANGED <<lim, cfg, otherVars, signal, localDir, thrownAt, remoteSize, speedLimit, disk0, attempt, activeChunks, ts>>

\* ------------------------------------------------------ stream handlers
\* The state the stream callbacks of one call work on, as one record, so
\* that a callback that runs several handlers in a row can be composed.
CallState == [ac |-> activeChunks, tr |-> transferred, rs |-> rs, ws |-> ws]

\* writeStream.write(chunk) on a stream that takes it: the chunk is queued
\* and the call returns whether the queued length is below highWaterMark.
WriteReturns(w, chunk) == TotalLen(w.buf) + chunk.len < CHUNK_SIZE

\* writeStream.write(chunk). After end() the write is an error (write after
\* end) that destroys the stream and is reported by its 'error' event; on a
\* destroyed stream the chunk is dropped without an event.
WsWrite(w, chunk) ==
    IF w.destroyed THEN w
    ELSE IF w.ending
    THEN [w EXCEPT !.errored = TRUE, !.errPending = TRUE,
                   !.destroyed = TRUE, !.buf = <<>>]
    ELSE [w EXCEPT !.buf = Append(@, chunk),
                   !.accepted = @ + chunk.len,
                   !.needDrain = @ \/ ~WriteReturns(w, chunk)]

\* The value the handler tests in `if (!writeStream.write(chunk))`. A write
\* the stream refuses returns the error object, which is truthy.
WsWriteResult(w, chunk) ==
    IF w.destroyed \/ w.ending THEN TRUE ELSE WriteReturns(w, chunk)

\* if (activeChunks >= MAX_CONCURRENT_CHUNKS) readStream.pause()
CapReached(ac) == ac >= MAX_CONCURRENT_CHUNKS

\* A faulty variant: transferred counts chunks, not their lengths.
DataHandler_CountsChunks(s, chunk) ==
    LET ac1 == s.ac + 1
        paused == CapReached(ac1) \/ ~WsWriteResult(s.ws, chunk)
    IN  [ac |-> ac1,
         tr |-> s.tr + 1,
         rs |-> [s.rs EXCEPT !.flowing = IF paused THEN FALSE ELSE @],
         ws |-> WsWrite(s.ws, chunk)]

\* dataStream.on('data', chunk => ...): count the chunk, pause the read
\* stream at the cap, write the chunk, pause the read stream when write()
\* returns false. (The progress bar is display only.)
DataHandler(s, chunk) ==
    LET ac1 == s.ac + 1
        paused == CapReached(ac1) \/ ~WsWriteResult(s.ws, chunk)
    IN  [ac |-> ac1,
         tr |-> s.tr + chunk.len,
         rs |-> [s.rs EXCEPT !.flowing = IF paused THEN FALSE ELSE @],
         ws |-> WsWrite(s.ws, chunk)]

\* The 'data' handler run on each chunk of q in turn.
RECURSIVE EmitAll(_, _)
EmitAll(s, q) ==
    IF q = <<>> THEN s ELSE EmitAll(DataHandler(s, Head(q)), Tail(q))

\* writeStream.on('drain'): activeChunks--; readStream.resume()
DrainHandler(s) ==
    [s EXCEPT !.ac = @ - 1, !.rs.flowing = TRUE]

\* handleStreamError: readStream.destroy(); writeStream.destroy();
\* conn.end(); reject(Stream error). destroy() drops what the write stream
\* still holds; it does not touch the file.
DestroyRead(r) == [r EXCEPT !.destroyed = TRUE, !.flowing = FALSE]
DestroyWrite(w) == [w EXCEPT !.destroyed = TRUE, !.buf = <<>>,
                             !.errPending = FALSE, !.closed = TRUE]

\* A faulty variant: the error handler without its conn.end().
handleStreamError_NoConnEnd ==
    /\ rs' = DestroyRead(rs)
    /\ ws' = DestroyWrite([ws EXCEPT !.errored = TRUE])
    /\ conn' = conn
    /\ promise' = Settle(promise, "rejected", "stream_error")
    /\ pc' = "stream_failed"

handleStreamError ==
    /\ rs' = DestroyRead(rs)
    /\ ws' = DestroyWrite([ws EXCEPT !.errored = TRUE])
    /\ conn' = "ended"
    /\ promise' = Settle(promise, "rejected", "stream_error")
    /\ pc' = "stream_failed"

\* The chunk the read stream emits next: up to highWaterMark (CHUNK_SIZE)
\* blocks from its position.
NextChunk(r, len) == [off |-> r.pos, len |-> len]

CanRead ==
    /\ pc = "streaming"
    /\ conn = "open"
    /\ rs.created /\ rs.flowing /\ ~rs.ended /\ ~rs.destroyed

\* readStream emits 'data' and no limiter is configured: dataStream is
\* readStream, the 'data' handler runs on the chunk.
ReadData ==
    /\ CanRead
    /\ ~speedLimit
    /\ \E len \in 1..Min(CHUNK_SIZE, remoteSize - rs.pos) :
         LET chunk == NextChunk(rs, len)
             s == DataHandler([CallState EXCEPT !.rs.pos = @ + len], chunk)
         IN  /\ activeChunks' = s.ac
             /\ transferred' = s.tr
             /\ rs' = s.rs
             /\ ws' = s.ws
    /\ UNCHANGED <<lim, cfg, otherVars, signal, localDir, thrownAt, remoteSize, speedLimit, disk, disk0, attempt, pc, conn,
                   promise, startPosition, ts>>

\* throttledStream.write(chunk), called by the pipe: whether the limiter's
\* writable side, with the chunk added, is below its highWaterMark.
ThrottleWriteReturns(t, chunk) ==
    TotalLen(t.queue) + chunk.len < THROTTLE_HWM

\* The pipe's 'drain' listener on the limiter: src.resume().
PipeOnDrain(r) == [r EXCEPT !.flowing = TRUE]

\* The pipe's 'data' listener on the read stream, after dest.write(chunk):
\* if (ret === false) src.pause().
PipeOnData(r, ret) == [r EXCEPT !.flowing = IF ret THEN @ ELSE FALSE]

\* readStream emits 'data' and a limiter is configured: the pipe writes the
\* chunk to the limiter. A limiter that is waiting on a timer queues it.
\* Otherwise _transform runs at once; whether bytesThisPeriod exceeds
\* allowedBytes depends on the clock (timeDelta), so both branches are
\* taken: `delayed` arms the timer, the other pushes the chunk to the
\* 'data' handler and calls back, after which the limiter, empty again,
\* emits 'drain' on the next tick.
ReadDataThrottled ==
    /\ CanRead
    /\ speedLimit
    /\ \E len \in 1..Min(CHUNK_SIZE, remoteSize - rs.pos), delayed \in BOOLEAN :
         LET chunk == NextChunk(rs, len)
             ret == ThrottleWriteReturns(ts, chunk)
             s0 == [CallState EXCEPT !.rs.pos = @ + len]
         IN  IF ts.busy \/ delayed
             THEN /\ ts' = [ts EXCEPT !.queue = Append(@, chunk),
                                      !.busy = TRUE]
                  /\ rs' = PipeOnData(s0.rs, ret)
                  /\ UNCHANGED <<activeChunks, transferred, ws>>
             ELSE LET s == DataHandler(s0, chunk)
                  IN  /\ activeChunks' = s.ac
                      /\ transferred' = s.tr
                      /\ ws' = s.ws
                      /\ rs' = IF ret THEN s.rs
                               ELSE PipeOnDrain(PipeOnData(s.rs, ret))
                      /\ ts' = ts
    /\ UNCHANGED <<lim, cfg, otherVars, signal, localDir, thrownAt, remoteSize, speedLimit, disk, disk0, attempt, pc, conn,
                   promise, startPosition>>

\* The limiter's timer fires: the delayed chunk is pushed to the 'data'
\* handler and the callback lets the limiter take the chunks queued behind
\* it; each is pushed at once or (the first one that exceeds allowedBytes)
\* delayed in turn. A limiter left empty emits 'drain', and the pipe
\* resumes the read stream.
TimerFire ==
    /\ ts.busy
    /\ \E k \in 1..Len(ts.queue) :
         LET s == EmitAll(CallState, SubSeq(ts.queue, 1, k))
             rest == SubSeq(ts.queue, k + 1, Len(ts.queue))
         IN  /\ activeChunks' = s.ac
             /\ transferred' = s.tr
             /\ ws' = s.ws
             /\ ts' = [ts EXCEPT !.queue = rest, !.busy = rest # <<>>]
             /\ rs' = IF rest = <<>> /\ ~ts.ending THEN PipeOnDrain(s.rs)
                      ELSE s.rs
    /\ UNCHANGED <<lim, cfg, otherVars, signal, localDir, thrownAt, remoteSize, speedLimit, disk, disk0, attempt, pc, conn,
                   promise, startPosition>>

\* writeStream.end(): no more writes; 'finish' follows once the queue is
\* flushed.
WsEnd(w) == IF w.destroyed THEN w ELSE [w EXCEPT !.ending = TRUE]

\* readStream emits 'end' (a flowing stream that has read to the end of the
\* remote object): the handler calls writeStream.end(); the pipe ends the
\* limiter.
ReadEnd ==
    /\ CanRead
    /\ rs.pos = remoteSize
    /\ rs' = [rs EXCEPT !.ended = TRUE]
    /\ ws' = WsEnd(ws)
    /\ ts' = IF speedLimit THEN [ts EXCEPT !.ending = TRUE] ELSE ts
    /\ UNCHANGED <<lim, cfg, otherVars, signal, localDir, thrownAt, remoteSize, speedLimit, disk, disk0, attempt, pc, conn,
                   promise, startPosition, activeChunks, transferred>>

\* Where the write stream puts a chunk: at the end of the file ('a' appends;
\* 'w' wrote from 0 into the file it truncated).
WriteToDisk(d, chunk) == File(d.bytes \o ChunkBytes(chunk))

\* The write stream emits 'drain' when its queue has emptied after a
\* write() returned false, unless it is ending.
EmitsDrain(w) == w.buf = <<>> /\ w.needDrain /\ ~w.ending

\* The write stream flushes its oldest chunk to the file; an emptied queue
\* emits 'drain' (the 'drain' handler runs).
Flush ==
    /\ ws.created /\ ~ws.destroyed
    /\ ws.buf # <<>>
    /\ LET chunk == Head(ws.buf)
           w == [ws EXCEPT !.buf = Tail(@), !.flushed = @ + chunk.len]
       IN  /\ disk' = WriteToDisk(disk, chunk)
           /\ IF EmitsDrain(w)
              THEN LET s == DrainHandler([CallState EXCEPT
                                             !.ws = [w EXCEPT !.needDrain = FALSE]])
                   IN  /\ activeChunks' = s.ac
                       /\ rs' = s.rs
                       /\ ws' = s.ws
              ELSE /\ ws' = w
                   /\ UNCHANGED <<activeChunks, rs>>
    /\ UNCHANGED <<lim, cfg, otherVars, signal, localDir, thrownAt, remoteSize, speedLimit, disk0, attempt, pc, conn, promise,
                   startPosition, transferred, ts>>

\* The write stream emits 'finish' once end() was called and its queue is
\* flushed.
CanFinish(w) ==
    w.created /\ w.ending /\ ~w.finished /\ ~w.destroyed /\ w.buf = <<>>

\* A faulty variant: completion reported from the read stream's 'end'
\* handler instead of the write stream's 'finish' handler.
Finish_OnReadEnd ==
    /\ pc = "streaming"
    /\ rs.ended /\ ~ws.destroyed
    /\ ws' = [ws EXCEPT !.finished = TRUE, !.destroyed = TRUE]
    /\ conn' = "ended"
    /\ promise' = Settle(promise, "resolved", "complete")
    /\ pc' = "completed"
    /\ UNCHANGED <<lim, cfg, otherVars, signal, localDir, thrownAt, remoteSize, speedLimit, disk, disk0, attempt,
                   startPosition, activeChunks, transferred, rs, ts>>

\* writeStream.on('finish'): conn.end(); resolve(Transfer complete).
Finish ==
    /\ CanFinish(ws)
    /\ ws' = [ws EXCEPT !.finished = TRUE, !.destroyed = TRUE]
    /\ conn' = "ended"
    /\ promise' = Settle(promise, "resolved", "complete")
    /\ pc' = "completed"
    /\ UNCHANGED <<lim, cfg, otherVars, signal, localDir, thrownAt, remoteSize, speedLimit, disk, disk0, attempt,
                   startPosition, activeChunks, transferred, rs, ts>>

\* readStream emits 'error' (a read request failed): handleStreamError.
ReadError ==
    /\ pc = "streaming"
    /\ rs.created /\ ~rs.ended /\ ~rs.destroyed
    /\ handleStreamError
    /\ UNCHANGED <<lim, cfg, otherVars, signal, localDir, thrownAt, remoteSize, speedLimit, disk, disk0, attempt,
                   startPosition, activeChunks, transferred, ts>>

\* The finished write stream closes its file.
WsClose ==
    /\ ws.finished /\ ~ws.closed
    /\ ws' = [ws EXCEPT !.closed = TRUE]
    /\ UNCHANGED <<lim, cfg, otherVars, signal, localDir, thrownAt, remoteSize, speedLimit, disk, disk0, attempt, pc, conn,
                   promise, startPosition, activeChunks, transferred, rs, ts>>

\* writeStream emits 'error' because the write of its oldest chunk failed,
\* or because closing the file after 'finish' failed: handleStreamError.
WriteError ==
    /\ pc \in {"streaming", "completed"}
    /\ ws.created
    /\ \/ ~ws.destroyed /\ ws.buf # <<>>
       \/ ws.finished /\ ~ws.closed
    /\ handleStreamError
    /\ UNCHANGED <<lim, cfg, otherVars, signal, localDir, thrownAt, remoteSize, speedLimit, disk, disk0, attempt,
                   startPosition, activeChunks, transferred, ts>>

\* writeStream emits the 'error' of a failed open or of a write after end,
\* which the stream raised on an earlier turn: handleStreamError.
WriteErrorEvent ==
    /\ pc = "streaming"
    /\ ws.errPending
    /\ handleStreamError
    /\ UNCHANGED <<lim, cfg, otherVars, signal, localDir, thrownAt, remoteSize, speedLimit, disk, disk0, attempt,
                   startPosition, activeChunks, transferred, ts>>

\* The caller runs the transfer again after a stream failure: a new
\* transferFile call (a new run of the program) on the same remote object
\* and the same local path, with the file as the failed run left it.
Retry ==
    /\ pc = "stream_failed"
    /\ promise.state = "rejected"
    /\ attempt < MaxAttempts
    /\ attempt' = attempt + 1
    /\ disk0' = disk
    /\ pc' = "connecting"
    /\ conn' = "open"
    /\ promise' = Pending
    /\ startPosition' = 0
    /\ activeChunks' = 0
    /\ transferred' = 0
    /\ rs' = NoRead
    /\ ts' = NoThrottle
    /\ ws' = NoWrite
    /\ signal' = "none"
    /\ UNCHANGED <<lim, cfg, otherVars, localDir, remoteSize, speedLimit, disk>>
    /\ thrownAt' = "none"

\* The caller gives up a call that has not settled and raises the
\* cancellation signal it passed in `options`. transferFile never reads
\* `options`: nothing of the call takes notice.
Cancel ==
    /\ promise.state = "pending"
    /\ signal = "none"
    /\ signal' = "aborted"
    /\ UNCHANGED <<lim, cfg, otherVars, localDir, thrownAt, remoteSize, speedLimit, disk, disk0, attempt, pc,
                   conn, promise, startPosition, activeChunks, transferred,
                   rs, ts, ws>>

Next ==
    \/ ConnError
    \/ ConnTimeout
    \/ ConnReady
    \/ SftpSession
    \/ RemoteStat
    \/ Mkdir
    \/ RemoteStat2
    \/ ResumeAndOpen
    \/ ReadData
    \/ ReadDataThrottled
    \/ TimerFire
    \/ ReadEnd
    \/ Flush
    \/ Finish
    \/ WsClose
    \/ ReadError
    \/ WriteError
    \/ WriteErrorEvent
    \/ Cancel
    \/ Retry

Spec == Init /\ [][Next]_vars

\* ------------------------------------------------------- long transfers
\* One call without a speed limit that downloads an object of
\* LongRemoteSize blocks from the start, long enough for activeChunks to
\* reach MAX_CONCURRENT_CHUNKS.
InitLong ==
    /\ remoteSize = LongRemoteSize
    /\ speedLimit = FALSE
    /\ disk = NoFile
    /\ disk0 = disk
    /\ attempt = MaxAttempts
    /\ InitCall
    /\ localDir = disk.exists
    /\ lim = NoLimiter
    /\ cfg = NoConfig
    /\ OthersIdle

NextLong ==
    \/ ConnError
    \/ ConnTimeout
    \/ ConnReady
    \/ SftpSession
    \/ RemoteStat
    \/ Mkdir
    \/ RemoteStat2
    \/ ResumeAndOpen
    \/ ReadData
    \/ ReadEnd
    \/ Flush
    \/ Finish
    \/ WsClose
    \/ ReadError
    \/ WriteError
    \/ WriteErrorEvent

\* What Node's event loop and the operating system guarantee: a flowing
\* read stream with data left delivers it (or its end), a timer that was
\* armed fires, a queued write is carried out, an event a stream has raised
\* is delivered. Failures (connection, read, write) may or may not happen.
Fairness ==
    /\ WF_vars(ReadData)
    /\ WF_vars(ReadDataThrottled)
    /\ WF_vars(TimerFire)
    /\ WF_vars(ReadEnd)
    /\ WF_vars(Flush)
    /\ WF_vars(Finish)
    /\ WF_vars(WsClose)
    /\ WF_vars(WriteErrorEvent)

SpecLong == InitLong /\ [][NextLong]_vars /\ Fairness

\* connect() is given readyTimeout: a connection that is not ready in time
\* is given up by the client, which reports it to the handlers.
SpecReady == Spec /\ WF_vars(ConnTimeout)

\* ------------------------------------------- long transfers, rate limited
\* One call with a speed limit that downloads an object of LongRemoteSize
\* blocks from the start, from a server that answers every read request
\* with one block.
InitCap ==
    /\ remoteSize = LongRemoteSize
    /\ speedLimit = TRUE
    /\ disk = NoFile
    /\ disk0 = disk
    /\ attempt = MaxAttempts
    /\ InitCall
    /\ localDir = disk.exists
    /\ lim = NoLimiter
    /\ cfg = NoConfig
    /\ OthersIdle

\* readStream emits 'data' with a chunk of one block.
ReadBlockThrottled == ReadDataThrottled /\ rs'.pos = rs.pos + 1

NextCap ==
    \/ ConnError
    \/ ConnTimeout
    \/ ConnReady
    \/ SftpSession
    \/ RemoteStat
    \/ Mkdir
    \/ RemoteStat2
    \/ ResumeAndOpen
    \/ ReadBlockThrottled
    \/ TimerFire
    \/ ReadEnd
    \/ Flush
    \/ Finish
    \/ WsClose
    \/ ReadError
    \/ WriteError
    \/ WriteErrorEvent

SpecCap == InitCap /\ [][NextCap]_vars

\* ------------------------------------------------ the limiter on its own
\* ThrottledStream with its numbers. Time is Date.now() in ms, counted from
\* the construction of the stream; lengths are in blocks and bytesPerSecond
\* in blocks per second. A chunk is [id, len], id being its rank among the
\* chunks written.
Rates == {500, 1000, 1500}

CeilDiv(a, b) == (a + b - 1) \div b

\* constructor: lastCheck = Date.now(); bytesThisPeriod = 0. `held` is the
\* chunk whose _transform waits on its timer (due: when the timer is due),
\* `queue` the chunks written meanwhile, which the stream keeps until the
\* callback of the one before. `input` and `out` record the chunks written
\* and the chunks pushed: out[i].at is the time of the push, out[i].win the
\* lastCheck then, out[i].sum the blocks pushed since that lastCheck, the
\* chunk included. `last` records the latest decision of _transform.
ThrottledStream(bps) ==
    [bytesPerSecond |-> bps, now |-> 0, lastCheck |-> 0,
     bytesThisPeriod |-> 0, pushedInWindow |-> 0,
     held |-> <<>>, due |-> 0, queue |-> <<>>,
     input |-> <<>>, out |-> <<>>,
     last |-> [before |-> 0, len |-> 0, elapsed |-> 0, delayed |-> FALSE,
               delay |-> 0]]

\* this.push(chunk)
Push(l, chunk) ==
    [l EXCEPT !.pushedInWindow = @ + chunk.len,
              !.out = Append(@, [id |-> chunk.id, len |-> chunk.len,
                                 at |-> l.now, win |-> l.lastCheck,
                                 sum |-> l.pushedInWindow + chunk.len])]

\* A faulty variant: allowedBytes without the division by 1000.
ExceedsAllowed_PerSecond(bps, bytes, timeDelta) == bytes > bps * timeDelta

\* if (this.bytesThisPeriod > allowedBytes), with
\* allowedBytes = bytesPerSecond * timeDelta / 1000
ExceedsAllowed(bps, bytes, timeDelta) == 1000 * bytes > bps * timeDelta

\* A faulty variant: the delay without the factor 1000 (seconds taken for
\* milliseconds).
requiredDelay_InSeconds(bps, bytes, timeDelta) ==
    CeilDiv(bytes, bps) - timeDelta

\* requiredDelay = Math.ceil(1000 * bytesThisPeriod / bytesPerSecond
\*                           - timeDelta)
requiredDelay(bps, bytes, timeDelta) == CeilDiv(1000 * bytes, bps) - timeDelta

\* A faulty variant: the delayed branch loses its chunk (nothing is pushed
\* when the timer would fire).
Transform_DropsDelayed(l, chunk) ==
    LET timeDelta == l.now - l.lastCheck
        bytes == l.bytesThisPeriod + chunk.len
        l1 == [l EXCEPT !.bytesThisPeriod = bytes]
    IN  IF ExceedsAllowed(l.bytesPerSecond, bytes, timeDelta)
        THEN l1
        ELSE Push(l1, chunk)

\* A faulty variant: the delay computed from the bytes counted before the
\* current chunk.
Transform_DelayLessChunk(l, chunk) ==
    LET timeDelta == l.now - l.lastCheck
        bytes == l.bytesThisPeriod + chunk.len
        delayed == ExceedsAllowed(l.bytesPerSecond, bytes, timeDelta)
        delay == requiredDelay(l.bytesPerSecond, l.bytesThisPeriod, timeDelta)
        l1 == [l EXCEPT !.bytesThisPeriod = bytes,
                        !.last = [before |-> l.bytesThisPeriod,
                                  len |-> chunk.len, elapsed |-> timeDelta,
                                  delayed |-> delayed,
                                  delay |-> IF delayed THEN delay ELSE 0]]
    IN  IF delayed
        THEN [l1 EXCEPT !.held = <<chunk>>, !.due = l.now + delay]
        ELSE Push(l1, chunk)

\* _transform(chunk, encoding, callback) up to its callback: the chunk is
\* counted, then either held for requiredDelay or pushed at once.
Transform(l, chunk) ==
    LET timeDelta == l.now - l.lastCheck
        bytes == l.bytesThisPeriod + chunk.len
        delayed == ExceedsAllowed(l.bytesPerSecond, bytes, timeDelta)
        delay == requiredDelay(l.bytesPerSecond, bytes, timeDelta)
        l1 == [l EXCEPT !.bytesThisPeriod = bytes,
                        !.last = [before |-> l.bytesThisPeriod,
                                  len |-> chunk.len, elapsed |-> timeDelta,
                                  delayed |-> delayed,
                                  delay |-> IF delayed THEN delay ELSE 0]]
    IN  IF delayed
        THEN [l1 EXCEPT !.held = <<chunk>>, !.due = l.now + delay]
        ELSE Push(l1, chunk)

\* callback(): the stream hands the next chunk it kept to _transform, and so
\* on until one is held or none is left.
RECURSIVE Callback(_)
Callback(l) ==
    IF l.held # <<>> \/ l.queue = <<>> THEN l
    ELSE Callback(Transform([l EXCEPT !.queue = Tail(@)], Head(l.queue)))

\* A faulty variant: the timer callback pushes the chunk and clears the
\* count but leaves lastCheck where it was.
TimerCallback_KeepsLastCheck(l) ==
    LET reset == [l EXCEPT !.bytesThisPeriod = 0,
                           !.pushedInWindow = 0, !.held = <<>>, !.due = 0]
    IN  Push(reset, Head(l.held))

\* The setTimeout callback: lastCheck = Date.now(); bytesThisPeriod = 0;
\* this.push(chunk); callback().
TimerCallback(l) ==
    LET reset == [l EXCEPT !.lastCheck = l.now, !.bytesThisPeriod = 0,
                           !.pushedInWindow = 0, !.held = <<>>, !.due = 0]
    IN  Push(reset, Head(l.held))

\* Date.now() moves on.
Tick ==
    /\ lim.bytesPerSecond > 0
    /\ lim.now < MaxTime
    /\ lim' = [lim EXCEPT !.now = @ + 1]
    /\ UNCHANGED <<callVars, cfg, otherVars>>

\* The source writes a chunk of len blocks: the stream keeps it and, when no
\* _transform is under way, hands it to _transform at once.
ThrottleWrite ==
    /\ lim.bytesPerSecond > 0
    /\ Len(lim.input) < MaxChunks
    /\ \E len \in 1..CHUNK_SIZE :
         LET chunk == [id |-> Len(lim.input) + 1, len |-> len]
         IN  lim' = Callback([lim EXCEPT !.input = Append(@, len),
                                         !.queue = Append(@, chunk)])
    /\ UNCHANGED <<callVars, cfg, otherVars>>

\* The timer of the held chunk fires, at its due time or later. The clock
\* may move on to the next millisecond (roll) between the Date.now() of the
\* timer callback and the Date.now() of the next _transform.
TimerFires ==
    /\ lim.bytesPerSecond > 0
    /\ lim.held # <<>>
    /\ lim.now >= lim.due
    /\ \E roll \in {0, 1} :
         /\ roll = 1 => (lim.queue # <<>> /\ lim.now < MaxTime)
         /\ lim' = Callback([TimerCallback(lim) EXCEPT !.now = @ + roll])
    /\ UNCHANGED <<callVars, cfg, otherVars>>

InitThrottle ==
    /\ remoteSize = 0
    /\ speedLimit = TRUE
    /\ disk = NoFile
    /\ disk0 = disk
    /\ attempt = 1
    /\ InitCall
    /\ localDir = disk.exists
    /\ cfg = NoConfig
    /\ OthersIdle
    /\ lim \in {ThrottledStream(bps) : bps \in Rates}

NextThrottle ==
    \/ Tick
    \/ ThrottleWrite
    \/ TimerFires

SpecThrottle == InitThrottle /\ [][NextThrottle]_vars

\* ------------------------------------------------------ the speed setting
\* process.env.TRANSFER_SPEED_LIMIT is unset or a text; the texts looked at
\* are made of these characters (no sign, no blank, no radix prefix).
Digits == {"0", "1", "5"}
EnvChars == Digits \cup {".", "a"}

DigitValue(c) == CASE c = "0" -> 0 [] c = "1" -> 1 [] c = "5" -> 5

RECURSIVE Texts(_)
Texts(n) ==
    IF n = 0 THEN {<<>>}
    ELSE Texts(n - 1) \cup {Append(t, c) : t \in {u \in Texts(n - 1) : Len(u) = n - 1},
                                            c \in EnvChars}

\* The value of the digits of t read as a decimal numeral.
RECURSIVE DecimalValue(_)
DecimalValue(t) ==
    IF t = <<>> THEN 0
    ELSE 10 * DecimalValue(SubSeq(t, 1, Len(t) - 1)) + DigitValue(t[Len(t)])

\* The longest prefix of t made of digits.
RECURSIVE LeadingDigits(_)
LeadingDigits(t) ==
    IF t = <<>> \/ Head(t) \notin Digits THEN <<>>
    ELSE <<Head(t)>> \o LeadingDigits(Tail(t))

\* parseInt(text): the integer its leading digits spell, NaN without any.
parseInt(t) ==
    IF LeadingDigits(t) = <<>> THEN NaN
    ELSE Number(DecimalValue(LeadingDigits(t)))

\* A JavaScript value taken as a condition (text: non-empty; number: not 0
\* and not NaN; null and undefined: false).
TruthyText(e) == e.set /\ e.text # <<>>
Truthy(v) == v.kind = "number" /\ v.n # 0

MiB == 1024 * 1024

\* x * 1024 * 1024 for a number or NaN
TimesMiB(v) == IF v.kind = "number" THEN Number(v.n * MiB) ELSE v

\* CONFIG.TRANSFER_SPEED_LIMIT:
\* process.env.TRANSFER_SPEED_LIMIT
\*     ? parseInt(process.env.TRANSFER_SPEED_LIMIT) * 1024 * 1024 : null
TRANSFER_SPEED_LIMIT(e) ==
    IF TruthyText(e) THEN TimesMiB(parseInt(e.text)) ELSE null

\* config.js is loaded: CONFIG is computed from the environment.
LoadConfig ==
    /\ cfg.step = "start"
    /\ cfg' = [cfg EXCEPT !.step = "loaded",
                          !.TRANSFER_SPEED_LIMIT = TRANSFER_SPEED_LIMIT(cfg.env)]
    /\ UNCHANGED <<callVars, lim, otherVars>>

\* transferFile wires the streams: if (CONFIG.TRANSFER_SPEED_LIMIT) a
\* ThrottledStream({bytesPerSecond: CONFIG.TRANSFER_SPEED_LIMIT}) is put
\* between the read stream and the 'data' handler.
WireLimiter ==
    /\ cfg.step = "loaded"
    /\ cfg' = [cfg EXCEPT
                 !.step = "wired",
                 !.throttled = Truthy(cfg.TRANSFER_SPEED_LIMIT),
                 !.bytesPerSecond = IF Truthy(cfg.TRANSFER_SPEED_LIMIT)
                                    THEN cfg.TRANSFER_SPEED_LIMIT.n ELSE 0]
    /\ UNCHANGED <<callVars, lim, otherVars>>

InitConfig ==
    /\ remoteSize = 0
    /\ speedLimit = FALSE
    /\ disk = NoFile
    /\ disk0 = disk
    /\ attempt = 1
    /\ InitCall
    /\ localDir = disk.exists
    /\ lim = NoLimiter
    /\ \E e \in {Unset} \cup {[set |-> TRUE, text |-> t] : t \in Texts(MaxEnvLen)} :
         cfg = [NoConfig EXCEPT !.env = e, !.step = "start"]
    /\ OthersIdle

NextConfig ==
    \/ LoadConfig
    \/ WireLimiter

SpecConfig == InitConfig /\ [][NextConfig]_vars

\* ------------------------------------------ two calls on one local path
\* Two transferFile calls that run in one process on the same local path and
\* the same remote object, from the await of getResumePosition on. Each call
\* has its own closure and its own write stream (its own file descriptor).
Calls == {1, 2}

NewCall == [pc |-> "resume", startPosition |-> 0, flags |-> "w",
            transferred |-> 0, position |-> 0]

\* fs.write through a descriptor opened with 'a' appends at the end of the
\* file whatever the descriptor's position; one opened with 'w' writes at
\* the descriptor's own position, over what is there.
WriteThrough(d, flags, position, bytes) ==
    IF flags = "a"
    THEN File(d.bytes \o bytes)
    ELSE LET end == position + Len(bytes)
             n == IF end > Len(d.bytes) THEN end ELSE Len(d.bytes)
         IN  File([x \in 1..n |->
                      IF x > position /\ x <= end THEN bytes[x - position]
                      ELSE IF x <= Len(d.bytes) THEN d.bytes[x] ELSE 0])

\* An open that refuses the path while the other call has it open.
TwoOpenOf_Locked(i) ==
    /\ two.step = "run"
    /\ two.calls[i].pc = "open"
    /\ \A j \in Calls \ {i} : two.calls[j].pc # "streaming"
    /\ LET c == two.calls[i]
       IN  two' = [two EXCEPT !.file = OpenFile(two.file, c.flags),
                              !.calls[i].pc = "streaming"]
    /\ UNCHANGED <<callVars, lim, cfg, meter, fmt, http, req>>

\* await getResumePosition(localFilePath), the skip check and the choice of
\* the flags of call i.
TwoStatOf(i) ==
    /\ two.step = "run"
    /\ two.calls[i].pc = "resume"
    /\ \E statThrows \in BOOLEAN :
         LET start == getResumePosition(two.file, statThrows)
         IN  two' = [two EXCEPT !.calls[i] =
                        [pc |-> IF SkipCheck(start, two.remoteSize)
                                THEN "skipped" ELSE "open",
                         startPosition |-> start,
                         flags |-> OpenFlags(start),
                         transferred |-> start,
                         position |-> 0]]
    /\ UNCHANGED <<callVars, lim, cfg, meter, fmt, http, req>>

\* fs.createWriteStream(localFilePath, {flags}) of call i opens the file.
TwoOpenOf(i) ==
    /\ two.step = "run"
    /\ two.calls[i].pc = "open"
    /\ LET c == two.calls[i]
       IN  two' = [two EXCEPT !.file = OpenFile(two.file, c.flags),
                              !.calls[i].pc = "streaming"]
    /\ UNCHANGED <<callVars, lim, cfg, meter, fmt, http, req>>

\* A chunk of call i arrives and its write stream writes it to the file.
TwoWriteOf(i) ==
    /\ two.step = "run"
    /\ two.calls[i].pc = "streaming"
    /\ LET c == two.calls[i]
       IN  /\ c.transferred < two.remoteSize
           /\ \E len \in 1..Min(CHUNK_SIZE, two.remoteSize - c.transferred) :
                LET chunk == [off |-> c.transferred, len |-> len]
                IN  two' = [two EXCEPT
                        !.file = WriteThrough(two.file, c.flags, c.position,
                                              ChunkBytes(chunk)),
                        !.calls[i].transferred = @ + len,
                        !.calls[i].position = @ + len]
    /\ UNCHANGED <<callVars, lim, cfg, meter, fmt, http, req>>

\* The read stream of call i has ended and its write stream has finished.
TwoFinishOf(i) ==
    /\ two.step = "run"
    /\ two.calls[i].pc = "streaming"
    /\ two.calls[i].transferred = two.remoteSize
    /\ two' = [two EXCEPT !.calls[i].pc = "completed"]
    /\ UNCHANGED <<callVars, lim, cfg, meter, fmt, http, req>>

TwoStat == \E i \in Calls : TwoStatOf(i)
TwoOpen == \E i \in Calls : TwoOpenOf(i)
TwoWrite == \E i \in Calls : TwoWriteOf(i)
TwoFinish == \E i \in Calls : TwoFinishOf(i)

InitTwo ==
    /\ remoteSize = 0
    /\ speedLimit = FALSE
    /\ disk = NoFile
    /\ disk0 = disk
    /\ attempt = 1
    /\ InitCall
    /\ localDir = disk.exists
    /\ lim = NoLimiter
    /\ cfg = NoConfig
    /\ meter = NoMeter
    /\ fmt = NoFormat
    /\ http = NoHttp
    /\ req = NoRequest
    /\ \E n \in 1..MaxRemoteSize : \E d \in LocalFiles(n) :
         two = [step |-> "run", remoteSize |-> n, file |-> d,
                file0 |-> d, calls |-> [i \in Calls |-> NewCall]]

NextTwo ==
    \/ TwoStat
    \/ TwoOpen
    \/ TwoWrite
    \/ TwoFinish

SpecTwo == InitTwo /\ [][NextTwo]_vars

\* ------------------------------------------------------- speed sampling
\* The progress part of the 'data' handler, on its own. Speeds are in
\* blocks per second and are kept as exact fractions [num, den] in lowest
\* terms (JavaScript keeps the nearest double).
RECURSIVE GCD(_, _)
GCD(a, b) == IF b = 0 THEN a ELSE GCD(b, a % b)

Rat(n, d) == LET g == GCD(n, d) IN [num |-> n \div g, den |-> d \div g]

RatAdd(x, y) == Rat(x.num * y.den + y.num * x.den, x.den * y.den)

\* speedSamples.reduce((a, b) => a + b, 0)
RECURSIVE reduce(_)
reduce(samples) ==
    IF samples = <<>> THEN Rat(0, 1)
    ELSE RatAdd(Head(samples), reduce(Tail(samples)))

Infinity == [kind |-> "Infinity", n |-> 0]

\* (transferred - lastTransferred) / (timeDiff / 1000)
currentSpeed(bytes, timeDiff) == Rat(bytes * 1000, timeDiff)

\* A buffer that gives up the newest sample when it is full.
Retain_DropsNewest(samples) ==
    IF Len(samples) > SPEED_SAMPLE_SIZE
    THEN SubSeq(samples, 1, Len(samples) - 1)
    ELSE samples

\* if (speedSamples.length > SPEED_SAMPLE_SIZE) speedSamples.shift()
Retain(samples) ==
    IF Len(samples) > SPEED_SAMPLE_SIZE THEN Tail(samples) ELSE samples

\* reduce(...) / speedSamples.length
Mean(samples) ==
    LET sum == reduce(samples) IN Rat(sum.num, sum.den * Len(samples))

\* An ETA rounded down.
Eta_Floor(remainingBytes, speed) ==
    IF speed.num = 0
    THEN IF remainingBytes = 0 THEN NaN ELSE Infinity
    ELSE Number((remainingBytes * speed.den) \div speed.num)

\* Math.ceil(remainingBytes / avgSpeed): a division by 0 gives Infinity, or
\* NaN for 0 / 0.
Eta(remainingBytes, speed) ==
    IF speed.num = 0
    THEN IF remainingBytes = 0 THEN NaN ELSE Infinity
    ELSE Number(CeilDiv(remainingBytes * speed.den, speed.num))

\* let transferred = 0, lastTransferred = 0, lastTime = Date.now(),
\* avgSpeed = 0, speedSamples = []; transferred = lastTransferred =
\* startPosition. `history` is every sample taken, `sampled` whether the
\* last chunk took one and `ticked` what it passed to bar.tick.
NewMeter(fileSize, start) ==
    [step |-> "run", fileSize |-> fileSize, now |-> 0, lastTime |-> 0,
     transferred |-> start, lastTransferred |-> start,
     avgSpeed |-> Rat(0, 1), speedSamples |-> <<>>, eta |-> Number(0),
     history |-> <<>>, sampled |-> FALSE, ticked |-> 0]

\* A faulty variant: the progress part runs before the length of the chunk
\* is added to transferred.
Sample_BeforeCount(m, len, dt) ==
    LET tr == m.transferred
        now == m.now + dt
        timeDiff == now - m.lastTime
    IN  IF timeDiff >= 1000
        THEN LET speed == currentSpeed(tr - m.lastTransferred, timeDiff)
                 samples == Retain(Append(m.speedSamples, speed))
                 avg == Mean(samples)
             IN  [m EXCEPT !.now = now, !.transferred = tr + len,
                           !.speedSamples = samples,
                           !.avgSpeed = avg,
                           !.eta = Eta(m.fileSize - tr, avg),
                           !.history = Append(@, speed),
                           !.sampled = TRUE,
                           !.ticked = tr - m.lastTransferred,
                           !.lastTransferred = tr,
                           !.lastTime = now]
        ELSE [m EXCEPT !.now = now, !.transferred = tr + len,
                       !.sampled = FALSE]

\* The 'data' handler from `const now = Date.now()` to `lastTime = now`,
\* for a chunk of len blocks that arrives dt ms after the last one.
Sample(m, len, dt) ==
    LET tr == m.transferred + len
        now == m.now + dt
        timeDiff == now - m.lastTime
    IN  IF timeDiff >= 1000
        THEN LET speed == currentSpeed(tr - m.lastTransferred, timeDiff)
                 samples == Retain(Append(m.speedSamples, speed))
                 avg == Mean(samples)
             IN  [m EXCEPT !.now = now, !.transferred = tr,
                           !.speedSamples = samples,
                           !.avgSpeed = avg,
                           !.eta = Eta(m.fileSize - tr, avg),
                           !.history = Append(@, speed),
                           !.sampled = TRUE,
                           !.ticked = tr - m.lastTransferred,
                           !.lastTransferred = tr,
                           !.lastTime = now]
        ELSE [m EXCEPT !.now = now, !.transferred = tr, !.sampled = FALSE]

\* A chunk arrives half a second or a second after the last one.
MeterData ==
    /\ meter.step = "run"
    /\ meter.transferred < meter.fileSize
    /\ \E dt \in {500, 1000} : meter' = Sample(meter, 1, dt)
    /\ UNCHANGED <<callVars, lim, cfg, two, fmt, http, req>>

InitMeter ==
    /\ remoteSize = 0
    /\ speedLimit = FALSE
    /\ disk = NoFile
    /\ disk0 = disk
    /\ attempt = 1
    /\ InitCall
    /\ localDir = disk.exists
    /\ lim = NoLimiter
    /\ cfg = NoConfig
    /\ two = NoTwo
    /\ fmt = NoFormat
    /\ http = NoHttp
    /\ req = NoRequest
    /\ \E start \in 0..1 : meter = NewMeter(MaxMeterSize, start)

NextMeter == MeterData

SpecMeter == InitMeter /\ [][NextMeter]_vars

\* ----------------------------------------------------------- formatters
\* formatEta for a whole number of seconds (Math.ceil and Math.floor of a
\* whole number are the number itself; / followed by Math.floor is \div).
\* The text is kept as its parts: "2m 5s" is <<[n |-> 2, unit |-> "m"],
\* [n |-> 5, unit |-> "s"]>>.
Part(n, unit) == [n |-> n, unit |-> unit]

\* A formatEta that leaves out the hours of an ETA of a day or more.
formatEta_SkipsHours(seconds) ==
    IF seconds < 60 THEN <<Part(seconds, "s")>>
    ELSE IF seconds < 3600
    THEN <<Part(seconds \div 60, "m"), Part(seconds % 60, "s")>>
    ELSE IF seconds < 86400
    THEN <<Part(seconds \div 3600, "h"), Part((seconds % 3600) \div 60, "m"),
           Part(seconds % 60, "s")>>
    ELSE <<Part(seconds \div 86400, "d"),
           Part((seconds % 3600) \div 60, "m"), Part(seconds % 60, "s")>>

formatEta(seconds) ==
    IF seconds < 60 THEN <<Part(seconds, "s")>>
    ELSE IF seconds < 3600
    THEN <<Part(seconds \div 60, "m"), Part(seconds % 60, "s")>>
    ELSE IF seconds < 86400
    THEN <<Part(seconds \div 3600, "h"), Part((seconds % 3600) \div 60, "m"),
           Part(seconds % 60, "s")>>
    ELSE <<Part(seconds \div 86400, "d"), Part((seconds % 86400) \div 3600, "h"),
           Part((seconds % 3600) \div 60, "m"), Part(seconds % 60, "s")>>

\* formatSpeed. A number is kept exactly as num * 1024^exp / den, with den
\* a power of 1024 and den = 1 while exp > 0, so that speeds beyond 2^31
\* can be given.
Big(a, e) == [num |-> a, den |-> 1, exp |-> e]

units == <<"B/s", "KB/s", "MB/s", "GB/s">>

\* A comparison that also takes the step at exactly 1024.
GreaterThan1024_OrEqual(x) ==
    IF x.exp >= 2 THEN x.num >= 1
    ELSE IF x.exp = 1 THEN x.num >= 1
    ELSE x.num >= 1024 * x.den

\* value > 1024
GreaterThan1024(x) ==
    IF x.exp >= 2 THEN x.num >= 1
    ELSE IF x.exp = 1 THEN x.num > 1
    ELSE x.num > 1024 * x.den

\* value /= 1024
DivideBy1024(x) ==
    IF x.exp > 0 THEN [x EXCEPT !.exp = @ - 1]
    ELSE IF x.num % 1024 = 0 THEN [x EXCEPT !.num = @ \div 1024]
    ELSE [x EXCEPT !.den = @ * 1024]

\* value.toFixed(2): the nearest number of hundredths, the larger one on a
\* tie; kept as hundredths * 1024^exp.
toFixed2(x) ==
    IF x.exp > 0 THEN [hundredths |-> 100 * x.num, exp |-> x.exp]
    ELSE [hundredths |-> (200 * x.num + x.den) \div (2 * x.den), exp |-> 0]

\* The while loop and the return of formatSpeed; unitIndex counts from 0.
RECURSIVE formatSpeedFrom(_, _)
formatSpeedFrom(value, unitIndex) ==
    IF GreaterThan1024(value) /\ unitIndex < Len(units) - 1
    THEN formatSpeedFrom(DivideBy1024(value), unitIndex + 1)
    ELSE [number |-> toFixed2(value), unit |-> units[unitIndex + 1]]

formatSpeed(bytesPerSecond) == formatSpeedFrom(bytesPerSecond, 0)

\* The whole numbers of seconds and of bytes per second the formatters are
\* called with.
EtaInputs ==
    {86400 * d + 3600 * h + 60 * m + sec :
        d \in 0..MaxDays, h \in {0, 1, 23}, m \in {0, 1, 2, 59},
        sec \in {0, 1, 5, 45, 59}}

SpeedInputs ==
    {Big(a, e) : a \in {1, 2, 500, 1023, 1024, 1025, 1536},
                 e \in 0..MaxSpeedExp}
    \cup {Big(a, 0) : a \in {0, 1029, 1048575, 1048577, 1572865}}

FormatEta ==
    /\ fmt.step = "call"
    /\ fmt.fn = "formatEta"
    /\ fmt' = [fmt EXCEPT !.step = "done", !.output = formatEta(fmt.input)]
    /\ UNCHANGED <<callVars, lim, cfg, two, meter, http, req>>

FormatSpeed ==
    /\ fmt.step = "call"
    /\ fmt.fn = "formatSpeed"
    /\ fmt' = [fmt EXCEPT !.step = "done", !.output = formatSpeed(fmt.input)]
    /\ UNCHANGED <<callVars, lim, cfg, two, meter, http, req>>

InitFormat ==
    /\ remoteSize = 0
    /\ speedLimit = FALSE
    /\ disk = NoFile
    /\ disk0 = disk
    /\ attempt = 1
    /\ InitCall
    /\ localDir = disk.exists
    /\ lim = NoLimiter
    /\ cfg = NoConfig
    /\ two = NoTwo
    /\ meter = NoMeter
    /\ http = NoHttp
    /\ req = NoRequest
    /\ \/ \E n \in EtaInputs :
            fmt = [step |-> "call", fn |-> "formatEta", input |-> n,
                   output |-> <<>>]
       \/ \E v \in SpeedInputs :
            fmt = [step |-> "call", fn |-> "formatSpeed", input |-> v,
                   output |-> <<>>]

NextFormat ==
    \/ FormatEta
    \/ FormatSpeed

SpecFormat == InitFormat /\ [][NextFormat]_vars

\* ------------------------------------------------ HTTP ranged transport
\* A transfer over the HTTP transport: the resume offset is the length of
\* the local file, a ranged GET is issued when the offset is positive, and
\* the body of the answer is written after what the file holds. The variant
\* has no check that ties the status of the answer to the offset asked for.
NoRange == [set |-> FALSE, from |-> 0]

\* Range: bytes=<offset>-
RangeFrom(offset) == [set |-> TRUE, from |-> offset]

RangeHeader(offset) == IF offset > 0 THEN RangeFrom(offset) ELSE NoRange

\* The answers of a server to a GET: partial content from the offset asked
\* for, or, with or without a Range header, the full content.
Answers(size, range) ==
    {[status |-> 200, body |-> Remote(size)]} \cup
    IF range.set
    THEN {[status |-> 206, body |-> SubSeq(Remote(size), range.from + 1, size)]}
    ELSE {}

NewHttp(size, file) ==
    [step |-> "plan", size |-> size, file |-> file, file0 |-> file,
     offset |-> 0, range |-> NoRange, status |-> 0, body |-> <<>>,
     outcome |-> "pending"]

\* The resume offset, the skip check and the GET request.
HttpOpen ==
    /\ http.step = "plan"
    /\ LET offset == getResumePosition(http.file, FALSE)
       IN  http' = IF SkipCheck(offset, http.size)
                   THEN [http EXCEPT !.step = "done", !.offset = offset,
                                     !.outcome = "skipped"]
                   ELSE [http EXCEPT !.step = "requested", !.offset = offset,
                                     !.range = RangeHeader(offset)]
    /\ UNCHANGED <<callVars, lim, cfg, two, meter, fmt, req>>

\* The server answers the GET.
HttpAnswer ==
    /\ http.step = "requested"
    /\ \E a \in Answers(http.size, http.range) :
         http' = [http EXCEPT !.step = "answered", !.status = a.status,
                              !.body = a.body]
    /\ UNCHANGED <<callVars, lim, cfg, two, meter, fmt, req>>

\* A chunk of the body is written to the local file, which was opened to
\* append when the offset is positive and truncated otherwise.
HttpWrite ==
    /\ http.step = "answered"
    /\ http.body # <<>>
    /\ \E len \in 1..Min(CHUNK_SIZE, Len(http.body)) :
         http' = [http EXCEPT
                    !.file = File(http.file.bytes \o SubSeq(http.body, 1, len)),
                    !.body = SubSeq(http.body, len + 1, Len(http.body))]
    /\ UNCHANGED <<callVars, lim, cfg, two, meter, fmt, req>>

\* The body has ended: the transfer is reported complete.
HttpFinish ==
    /\ http.step = "answered"
    /\ http.body = <<>>
    /\ http' = [http EXCEPT !.step = "done", !.outcome = "completed"]
    /\ UNCHANGED <<callVars, lim, cfg, two, meter, fmt, req>>

InitHttp ==
    /\ remoteSize = 0
    /\ speedLimit = FALSE
    /\ disk = NoFile
    /\ disk0 = disk
    /\ attempt = 1
    /\ InitCall
    /\ localDir = disk.exists
    /\ lim = NoLimiter
    /\ cfg = NoConfig
    /\ two = NoTwo
    /\ meter = NoMeter
    /\ fmt = NoFormat
    /\ req = NoRequest
    /\ \E n \in 1..MaxHttpSize :
         \E k \in 0..n :
            http = NewHttp(n, IF k = 0 THEN NoFile
                              ELSE File(SubSeq(Remote(n), 1, k)))

NextHttp ==
    \/ HttpOpen
    \/ HttpAnswer
    \/ HttpWrite
    \/ HttpFinish

SpecHttp == InitHttp /\ [][NextHttp]_vars

\* ------------------------------------------------------ catalog requests
\* One GET of the axios instance that axios-retry wraps: a failed attempt
\* is sent again while fewer than `retries` retries were made and
\* retryCondition accepts the error, after retryDelay(retryCount) ms, with
\* retryCount the number of the retry (from 1).
NetworkError == [response |-> FALSE, status |-> 0]
StatusError(status) == [response |-> TRUE, status |-> status]

\* What an attempt can fail with: no answer, or an answer with a 4xx or
\* 5xx status.
Errors == {NetworkError} \cup {StatusError(st) : st \in {401, 404, 500, 503}}

\* axiosRetry.isNetworkOrIdempotentRequestError for a GET: an error without
\* a response, or a response with a 5xx status.
isNetworkOrIdempotentRequestError(error) ==
    \/ ~error.response
    \/ error.status >= 500 /\ error.status <= 599

\* A condition that sends every failed request again.
retryCondition_Always(error) == TRUE

retryCondition(error) ==
    \/ isNetworkOrIdempotentRequestError(error)
    \/ error.response /\ error.status >= 500

\* retryDelay: (retryCount) => retryCount * 1000
retryDelay(retryCount) == retryCount * 1000

\* sentAt and failedAt are the times of the attempts and of their failures.
NewRequest ==
    [step |-> "sending", retryCount |-> 0, now |-> 0, due |-> 0,
     sentAt |-> <<0>>, failedAt |-> <<>>, errors |-> <<>>]

\* An attempt fails: axios-retry arms the timer of the next retry, or hands
\* the error to the caller.
RequestFails ==
    /\ req.step = "sending"
    /\ \E error \in Errors :
         LET r == [req EXCEPT !.failedAt = Append(@, req.now),
                              !.errors = Append(@, error)]
         IN  req' = IF req.retryCount < retries /\ retryCondition(error)
                    THEN [r EXCEPT !.step = "waiting",
                                   !.retryCount = @ + 1,
                                   !.due = req.now + retryDelay(req.retryCount + 1)]
                    ELSE [r EXCEPT !.step = "failed"]
    /\ UNCHANGED <<callVars, lim, cfg, two, meter, fmt, http>>

\* An attempt is answered with a 2xx status.
RequestSucceeds ==
    /\ req.step = "sending"
    /\ req' = [req EXCEPT !.step = "done"]
    /\ UNCHANGED <<callVars, lim, cfg, two, meter, fmt, http>>

\* A second passes while the retry timer runs.
RequestWaits ==
    /\ req.step = "waiting"
    /\ req.now < req.due
    /\ req' = [req EXCEPT !.now = @ + 1000]
    /\ UNCHANGED <<callVars, lim, cfg, two, meter, fmt, http>>

\* The retry timer fires (at its time or late): the request is sent again.
RequestRetries ==
    /\ req.step = "waiting"
    /\ req.now >= req.due
    /\ \E late \in {0, 1000} :
         req' = [req EXCEPT !.step = "sending", !.now = @ + late,
                            !.sentAt = Append(@, req.now + late)]
    /\ UNCHANGED <<callVars, lim, cfg, two, meter, fmt, http>>

InitRetry ==
    /\ remoteSize = 0
    /\ speedLimit = FALSE
    /\ disk = NoFile
    /\ disk0 = disk
    /\ attempt = 1
    /\ InitCall
    /\ localDir = disk.exists
    /\ lim = NoLimiter
    /\ cfg = NoConfig
    /\ two = NoTwo
    /\ meter = NoMeter
    /\ fmt = NoFormat
    /\ http = NoHttp
    /\ req = NewRequest

NextRetry ==
    \/ RequestFails
    \/ RequestSucceeds
    \/ RequestWaits
    \/ RequestRetries

SpecRetry == InitRetry /\ [][NextRetry]_vars

\* ================================================================ claims
Completed == promise = [state |-> "resolved", value |-> "complete"]
Skipped == promise = [state |-> "resolved", value |-> "skipped"]
Failed == promise.state = "rejected"

\* The local file holds the remote object's blocks from offset `from` on
\* and has the remote object's length.
WholeFrom(from) ==
    /\ Len(disk.bytes) = remoteSize
    /\ \A i \in (from + 1)..remoteSize : disk.bytes[i] = Remote(remoteSize)[i]

\* C1: a transfer started at 0 <= startOffset < remoteSize that is reported
\* complete, with or without a speed limit, has left a local file of the
\* remote's length whose blocks from startOffset on are the remote's.
C1_CompleteIsWhole ==
    Completed => WholeFrom(startPosition)

StreamErrorHandled == pc = "stream_failed"
StreamFailure == [state |-> "rejected", value |-> "stream_error"]
ConnectionFailed == promise.value \in {"connection_error", "timeout"}

\* C2: once a stream error was handled (and no connection failure had been
\* reported before it), the transfer is Failed with a stream error, both
\* streams are destroyed and the connection is ended; handling the error
\* leaves the local file as it is.
C2_StreamErrorFails ==
    [][(StreamErrorHandled' /\ ~ConnectionFailed') =>
          /\ promise' = StreamFailure
          /\ rs'.destroyed /\ ws'.destroyed
          /\ conn' = "ended"
          /\ disk' = disk]_vars

\* What the error handling does in every case: it leaves the local file as
\* it is, destroys both streams, ends the connection, rejects a pending
\* promise with a stream error and leaves a settled one as it is.
StreamErrorCleansUp ==
    [][StreamErrorHandled' =>
          /\ disk' = disk
          /\ rs'.destroyed /\ ws'.destroyed
          /\ conn' = "ended"
          /\ promise' = IF promise.state = "pending" THEN StreamFailure
                        ELSE promise]_vars

\* C3: a failure of the SFTP session, of a remote stat or of mkdir rejects
\* the promise transferFile returned and ends the connection.
C3_SetupFailureRejects ==
    pc = "thrown" => (promise.state = "rejected" /\ conn = "ended")

\* C4: once the stream is open, the transfer eventually reaches Completed
\* or Failed.
C4_EventuallySettled ==
    (pc = "streaming") ~> (promise.state # "pending")

\* The read stream delivers a chunk in this step.
Pulled == rs.created /\ rs'.pos > rs.pos

\* C5: after a write() has reported the write buffer full (needDrain), no
\* chunk is pulled from the read stream until the write stream has emitted
\* 'drain', with and without the limiter.
C5_NoPullUntilDrain ==
    [][ws.needDrain => ~Pulled]_vars

\* The call has passed the skip check.
PastSkipCheck == pc \in {"skipped", "streaming", "stream_failed", "completed"}

\* C6: when the local file is at least as long as the remote object, the
\* call resolves with 'skipped', creates no stream and ends the connection.
C6_SkipWhenNotShorter ==
    (/\ PastSkipCheck
     /\ ~ConnectionFailed
     /\ disk0.exists
     /\ Len(disk0.bytes) >= remoteSize)
    => (Skipped /\ ~rs.created /\ ~ws.created /\ conn = "ended")

\* The local file's length when the call began (0 without a file).
LocalLength == IF disk0.exists THEN Len(disk0.bytes) ELSE 0

\* C7: the start offset is the local file's length (0 without a file); a
\* transfer below the remote size reads from that offset, writes from that
\* offset (truncating only at offset 0), and leaves the blocks before the
\* offset as they were.
C7_ResumeAtLocalLength ==
    PastSkipCheck =>
        /\ startPosition = LocalLength
        /\ rs.created =>
             /\ rs.start = startPosition
             /\ ws.flags = (IF startPosition = 0 THEN "w" ELSE "a")
             /\ IsPrefix(disk0.bytes, disk.bytes)
             /\ Len(disk.bytes) = startPosition + ws.flushed

\* C8: over the attempts on one path the file never gets shorter, each
\* attempt reads from the length the file had when it began, and an attempt
\* that completes on a file that was a part of the remote object leaves
\* the remote object.
C8_AttemptsResume ==
    [][/\ Len(disk'.bytes) >= Len(disk.bytes)
       /\ rs'.created => rs'.start = Len(disk0'.bytes)
       /\ (Completed' /\ IsPrefix(disk0'.bytes, Remote(remoteSize)))
            => disk'.bytes = Remote(remoteSize)]_vars

\* C9: Completed is reported only when the read stream has ended, every
\* chunk given to the write stream is flushed to the file, and the write
\* stream has not failed.
C9_CompletedAfterEndAndFlush ==
    [][(~Completed /\ Completed') =>
          /\ rs.ended
          /\ ws.ending /\ ~ws.errored
          /\ ws.buf = <<>>
          /\ ws.flushed = ws.accepted
          /\ Len(disk.bytes) = startPosition + ws.accepted]_vars

\* C9 witness: a completed transfer whose write stream was given blocks.
C9_Witness ==
    Completed /\ rs.ended /\ ws.accepted > 0 /\ ws.flushed = ws.accepted

\* C10: a transfer that ends Completed or Skipped has left a file of the
\* remote object's length at the local path.
C10_SuccessHasWholeLength ==
    (Completed \/ Skipped) => (disk.exists /\ Len(disk.bytes) = remoteSize)

\* C11: a stat of the local path that fails for another reason than a
\* missing file is never taken for 'no local file': a call that found a
\* file with content never goes on at offset 0, and that file is never
\* truncated.
C11_StatFailureNotOffsetZero ==
    (PastSkipCheck /\ disk0.exists /\ Len(disk0.bytes) > 0)
    => (startPosition # 0 /\ IsPrefix(disk0.bytes, disk.bytes))

\* The call has ended: its promise is settled, or the 'ready' handler has
\* thrown.
Ended == promise.state # "pending" \/ pc = "thrown"

\* C12: on every path by which a call ends (skipped, completed, stream
\* error, setup failure, connection error, timeout) the connection has been
\* ended.
C12_EndedMeansConnEnded ==
    Ended => conn = "ended"

\* C12 witness: a call that ended by a stream error, with the connection
\* ended.
C12_Witness ==
    pc = "stream_failed" /\ promise = StreamFailure /\ conn = "ended"

\* C13: the number of chunks handed to the write stream and not yet
\* flushed never exceeds MAX_CONCURRENT_CHUNKS, with and without the
\* limiter.
C13_UnflushedAtMostCap ==
    Len(ws.buf) <= MAX_CONCURRENT_CHUNKS

\* The limiter on its own is looked at.
Throttling == lim.bytesPerSecond > 0

\* The chunks the limiter still holds, oldest first.
Kept == lim.held \o lim.queue

\* out[i] was pushed by the timer callback (after a delay) / by _transform
\* itself (at once).
PushedLate(i) == lim.out[i].at = lim.out[i].win /\ lim.out[i].sum = lim.out[i].len
PushedAtOnce(i) == lim.out[i].at > lim.out[i].win

\* C14: the chunks the ThrottledStream has pushed are the chunks written to
\* it, each once, unchanged and in the order written, whatever was delayed;
\* at most one chunk is held on a timer, and the chunks that arrived
\* meanwhile wait behind it in order.
C14_ThrottleKeepsOrder ==
    Throttling =>
        /\ \A i \in 1..Len(lim.out) :
             lim.out[i].id = i /\ lim.out[i].len = lim.input[i]
        /\ Len(lim.held) <= 1
        /\ Len(lim.out) + Len(Kept) = Len(lim.input)
        /\ \A k \in 1..Len(Kept) :
             Kept[k] = [id |-> Len(lim.out) + k,
                        len |-> lim.input[Len(lim.out) + k]]

\* C14 witness: every chunk written has been pushed, one of them after a
\* delay and one at once.
C14_Witness ==
    /\ Throttling
    /\ Len(lim.out) = MaxChunks
    /\ \E i, j \in 1..Len(lim.out) : PushedLate(i) /\ PushedAtOnce(j)

\* C15: whenever the ThrottledStream pushes a chunk, the blocks pushed since
\* lastCheck, that chunk included, exceed bytesPerSecond * elapsed / 1000
\* by one chunk (CHUNK_SIZE) at most.
C15_WindowWithinRate ==
    Throttling =>
        \A i \in 1..Len(lim.out) :
            1000 * lim.out[i].sum
              <= lim.bytesPerSecond * (lim.out[i].at - lim.out[i].win)
                 + 1000 * CHUNK_SIZE

\* C15 witness: a chunk pushed at once in a window that a delayed chunk
\* opened, so that the window holds more than that chunk.
C15_Witness ==
    /\ Throttling
    /\ \E i \in 1..Len(lim.out) :
         PushedAtOnce(i) /\ lim.out[i].win > 0 /\ lim.out[i].sum > lim.out[i].len

\* The blocks of the chunks out[i..j].
RECURSIVE PushedBlocks(_, _)
PushedBlocks(i, j) ==
    IF i > j THEN 0 ELSE lim.out[i].len + PushedBlocks(i + 1, j)

\* C16: over any interval of d ms the ThrottledStream pushes at most
\* bytesPerSecond * d / 1000 blocks plus one chunk (CHUNK_SIZE), also after
\* a time in which the source wrote nothing.
C16_NoBurstAfterIdle ==
    Throttling =>
        \A i, j \in 1..Len(lim.out) :
            i <= j =>
                1000 * PushedBlocks(i, j)
                  <= lim.bytesPerSecond * (lim.out[j].at - lim.out[i].at)
                     + 1000 * CHUNK_SIZE

\* The first j chunks pushed all have the length of the first one.
Uniform(j) == \A i \in 1..j : lim.out[i].len = lim.out[1].len

\* C17: when S blocks have been pushed in uniform chunks, the time since the
\* construction of the limiter is at least S / R less one chunk's time:
\* 1000 * (S - chunk) <= R * t.
C17_TimeAtLeastSizeOverRate ==
    Throttling =>
        \A j \in 1..Len(lim.out) :
            Uniform(j) =>
                1000 * (PushedBlocks(1, j) - lim.out[j].len)
                  <= lim.bytesPerSecond * lim.out[j].at

\* C17 witness: MaxChunks uniform chunks have all been pushed, each after
\* its delay (the source had the next chunk ready whenever the limiter took
\* one), the last one S / R after the construction.
C17_Witness ==
    /\ Throttling
    /\ Len(lim.out) = MaxChunks
    /\ Uniform(MaxChunks)
    /\ \A i \in 1..MaxChunks : PushedLate(i)
    /\ lim.bytesPerSecond * lim.out[MaxChunks].at
         = 1000 * PushedBlocks(1, MaxChunks)

\* The blocks of the chunks among out[1..n] that passed at once in the
\* current window (since lim.lastCheck).
RECURSIVE PassedInWindow(_)
PassedInWindow(n) ==
    IF n = 0 THEN 0
    ELSE PassedInWindow(n - 1)
         + (IF lim.out[n].win = lim.lastCheck /\ ~PushedLate(n)
            THEN lim.out[n].len ELSE 0)

\* The blocks counted in the current window by the chunks pushed so far.
bytesEmittedInWindow == PassedInWindow(Len(lim.out))

\* The latest _transform passed its chunk at once and the window is still
\* the one it decided in.
DecidedAtOnce == lim.held = <<>> /\ ~lim.last.delayed /\ lim.last.len > 0

\* C18 as stated: a chunk is delayed exactly when bytesEmittedInWindow +
\* chunkSize > allowed, and the delay is then 1000 * bytesEmittedInWindow /
\* bytesPerSecond - elapsed (rounded up to a whole ms), without the current
\* chunk, and positive.
C18_DelayWithoutChunk ==
    Throttling =>
        /\ lim.held # <<>> =>
             /\ 1000 * (bytesEmittedInWindow + Head(lim.held).len)
                  > lim.bytesPerSecond * lim.last.elapsed
             /\ lim.due - lim.lastCheck
                  = CeilDiv(1000 * bytesEmittedInWindow, lim.bytesPerSecond)
             /\ lim.due > lim.lastCheck + lim.last.elapsed
        /\ DecidedAtOnce =>
             1000 * bytesEmittedInWindow
               <= lim.bytesPerSecond * lim.last.elapsed

\* C18 amended: a chunk is delayed exactly when bytesEmittedInWindow +
\* chunkSize > allowed, and the delay is then 1000 * (bytesEmittedInWindow
\* + chunkSize) / bytesPerSecond - elapsed rounded up to a whole ms, the
\* current chunk included, which is positive.
C18_DelayWithChunk ==
    Throttling =>
        /\ lim.held # <<>> =>
             /\ 1000 * (bytesEmittedInWindow + Head(lim.held).len)
                  > lim.bytesPerSecond * lim.last.elapsed
             /\ lim.due - lim.lastCheck
                  = CeilDiv(1000 * (bytesEmittedInWindow + Head(lim.held).len),
                            lim.bytesPerSecond)
             /\ lim.due > lim.lastCheck + lim.last.elapsed
        /\ DecidedAtOnce =>
             1000 * bytesEmittedInWindow
               <= lim.bytesPerSecond * lim.last.elapsed

\* C18 witness: a chunk is being delayed in a window in which other chunks
\* have passed at once.
C18_Witness ==
    Throttling /\ lim.held # <<>> /\ bytesEmittedInWindow > 0 /\ lim.lastCheck > 0

\* The setting is a decimal numeral: digits, or digits "." digits.
IsDigits(t) == t # <<>> /\ \A i \in 1..Len(t) : t[i] \in Digits
IsNumeral(t) ==
    \/ IsDigits(t)
    \/ \E k \in 2..(Len(t) - 1) :
         /\ t[k] = "."
         /\ IsDigits(SubSeq(t, 1, k - 1))
         /\ IsDigits(SubSeq(t, k + 1, Len(t)))

\* The numeral t is N = Numerator(t) / Denominator(t).
Fraction(t) == SelectSeq(t, LAMBDA c : c \in Digits)
Numerator(t) == DecimalValue(Fraction(t))
RECURSIVE Pow10(_)
Pow10(k) == IF k = 0 THEN 1 ELSE 10 * Pow10(k - 1)
Denominator(t) ==
    IF IsDigits(t) THEN 1
    ELSE Pow10(Len(t) - (CHOOSE k \in 1..Len(t) : t[k] = "."))

\* C19: the limiter is put in exactly when the setting is neither unset nor
\* empty, and for a setting of N (MB/s) its bytesPerSecond is N * 1048576.
C19_LimiterIffConfigured ==
    cfg.step = "wired" =>
        /\ cfg.throttled <=> TruthyText(cfg.env)
        /\ (cfg.throttled /\ IsNumeral(cfg.env.text)) =>
             cfg.bytesPerSecond * Denominator(cfg.env.text)
               = Numerator(cfg.env.text) * MiB

\* C20: in a transfer (once the streams exist) transferred starts at the
\* start offset, never decreases, is the start offset plus the lengths of
\* the chunks the 'data' handler has received (what the read stream has
\* delivered less what the limiter still holds), and stays between the
\* start offset and the remote size.
C20_TransferredInRange ==
    [][rs'.created =>
          /\ startPosition' <= transferred' /\ transferred' <= remoteSize'
          /\ transferred' + TotalLen(ts'.queue) = rs'.pos
          /\ IF rs.created THEN transferred' >= transferred
             ELSE transferred' = startPosition']_vars

\* C20 witness: a resumed transfer whose 'data' handler has received a
\* chunk of more than one block.
C20_Witness ==
    /\ rs.created
    /\ startPosition > 0
    /\ transferred >= startPosition + CHUNK_SIZE

C22_OutcomeIsRecord ==
    promise.state # "pending"
        => {"status", "bytesTransferred", "elapsedTime", "message"}
               \subseteq ResultFields(promise.value)

\* The client reports an error or a timeout of the connection: the handler
\* ends the connection and the 'ready' handler stays where it is.
ConnectionLost == conn = "open" /\ conn' = "ended" /\ pc' = pc

\* C23: a connection error or timeout, before the connection is ready or
\* during the transfer, makes the transfer Failed with a connection error and
\* ends the connection; within a call an ended connection is never opened
\* again; and a call whose connection does not become ready does not stay
\* pending forever.
C23_ConnectionFailureFails ==
    /\ [][ConnectionLost => (Failed' /\ ConnectionFailed')]_vars
    /\ [][(conn = "ended" /\ attempt' = attempt) => conn' = "ended"]_vars
    /\ (pc = "connecting") ~> (pc # "connecting" \/ promise.state # "pending")

\* The connection failed during the transfer, with data already received.
C23_Witness ==
    /\ pc = "streaming"
    /\ transferred > startPosition
    /\ conn = "ended"
    /\ promise = [state |-> "rejected", value |-> "connection_error"]

\* C25: a call on a local path never waits for, and is never refused
\* because of, the other call on the same path: whatever the other call is
\* doing, a call that is about to look up its resume offset can do so, one
\* that is about to open the file can open it and one that has data left
\* can write it.
C25_NoLockOnPath ==
    two.step = "run" =>
        \A i \in Calls :
            /\ two.calls[i].pc = "resume" => ENABLED TwoStatOf(i)
            /\ two.calls[i].pc = "open" => ENABLED TwoOpenOf(i)
            /\ (two.calls[i].pc = "streaming"
                  /\ two.calls[i].transferred < two.remoteSize)
                   => ENABLED TwoWriteOf(i)

\* Both calls are in progress at once, each resumed from the length the
\* file had before either wrote, and each has written to the file.
C25_Witness ==
    /\ two.step = "run"
    /\ \A i \in Calls :
         /\ two.calls[i].pc = "streaming"
         /\ two.calls[i].startPosition = Len(two.file0.bytes)
         /\ two.calls[i].startPosition > 0
         /\ two.calls[i].position > 0
    /\ Len(two.file.bytes) > two.remoteSize

\* C26: raising the cancellation signal of a call that is pending or in
\* progress ends the connection and rejects the promise of the call at once,
\* and leaves the local file as it is.
C26_CancelRejects ==
    [][(signal = "none" /\ signal' = "aborted")
          => (conn' = "ended" /\ Failed' /\ disk' = disk)]_vars

\* The last k elements of a sequence (all of it when it is shorter).
LastOf(q, k) == IF Len(q) <= k THEN q ELSE SubSeq(q, Len(q) - k + 1, Len(q))

\* C27: the speed-sample buffer never holds more than SPEED_SAMPLE_SIZE
\* samples, it holds the most recent samples in the order they were taken
\* (the oldest is the one dropped), and the speed reported with a sample is
\* the arithmetic mean of the samples in the buffer.
C27_BoundedFifoMean ==
    meter.step = "run" =>
        /\ Len(meter.speedSamples) <= SPEED_SAMPLE_SIZE
        /\ meter.speedSamples = LastOf(meter.history, SPEED_SAMPLE_SIZE)
        /\ meter.sampled =>
              LET sum == reduce(meter.speedSamples)
              IN  meter.avgSpeed.num * sum.den * Len(meter.speedSamples)
                      = sum.num * meter.avgSpeed.den

\* An eleventh sample has arrived, with samples of different speeds.
C27_Witness ==
    /\ meter.step = "run"
    /\ meter.sampled
    /\ Len(meter.history) = SPEED_SAMPLE_SIZE + 1
    /\ meter.history[1] # meter.history[2]
    /\ meter.avgSpeed.den > 1

\* C28: whenever an ETA is computed, the measured speed is positive (so no
\* ETA is ever computed from a speed of 0, and no division by 0 takes
\* place), and the ETA is the number ceil((fileSize - transferred) / speed):
\* a non-negative integer e with (e - 1) * speed < remaining <= e * speed.
C28_EtaIsCeiling ==
    (meter.step = "run" /\ meter.sampled) =>
        LET remaining == meter.fileSize - meter.transferred
            speed == meter.avgSpeed
            e == meter.eta
        IN  /\ speed.num > 0
            /\ e.kind = "number"
            /\ e.n >= 0
            /\ remaining * speed.den <= e.n * speed.num
            /\ (e.n - 1) * speed.num < remaining * speed.den

\* An ETA was computed that the ceiling rounded up.
C28_Witness ==
    /\ meter.step = "run"
    /\ meter.sampled
    /\ meter.eta.n > 1
    /\ (meter.fileSize - meter.transferred) * meter.avgSpeed.den
           < meter.eta.n * meter.avgSpeed.num

\* The number printed with unit u, 0 when the unit is left out.
PrintedWith(out, u) ==
    IF \E i \in 1..Len(out) : out[i].unit = u
    THEN (CHOOSE p \in {out[i] : i \in 1..Len(out)} : p.unit = u).n
    ELSE 0

UnitsOf(out) == [i \in 1..Len(out) |-> out[i].unit]

\* C29: for a whole number n >= 0 of seconds, formatEta prints d, h, m, s
\* with n = 86400d + 3600h + 60m + s, h < 24, m < 60 and s < 60, and prints
\* the seconds always and the larger units from the largest one needed on:
\* "Xs" below a minute, "Xm Xs" below an hour, "Xh Xm Xs" below a day,
\* "Xd Xh Xm Xs" otherwise.
C29_EtaDecomposes ==
    (fmt.step = "done" /\ fmt.fn = "formatEta") =>
        LET n == fmt.input
            out == fmt.output
            d == PrintedWith(out, "d")
            h == PrintedWith(out, "h")
            m == PrintedWith(out, "m")
            sec == PrintedWith(out, "s")
        IN  /\ n = 86400 * d + 3600 * h + 60 * m + sec
            /\ d >= 0 /\ h >= 0 /\ m >= 0 /\ sec >= 0
            /\ h < 24 /\ m < 60 /\ sec < 60
            /\ UnitsOf(out) =
                  IF n < 60 THEN <<"s">>
                  ELSE IF n < 3600 THEN <<"m", "s">>
                  ELSE IF n < 86400 THEN <<"h", "m", "s">>
                  ELSE <<"d", "h", "m", "s">>

\* formatEta(90065) has returned "1d 1h 1m 5s".
C29_Witness ==
    /\ fmt.step = "done"
    /\ fmt.fn = "formatEta"
    /\ fmt.input = 90065
    /\ fmt.output = <<Part(1, "d"), Part(1, "h"), Part(1, "m"), Part(5, "s")>>

RECURSIVE Pow1024(_)
Pow1024(j) == IF j = 0 THEN 1 ELSE 1024 * Pow1024(j - 1)

\* a * 1024^e <= 1024^j
LeqPow1024(a, e, j) ==
    IF a = 0 THEN TRUE ELSE IF e > j THEN FALSE ELSE a <= Pow1024(j - e)

\* The position of a unit in B/s, KB/s, MB/s, GB/s, from 0.
StepsOf(unit) == (CHOOSE i \in 1..Len(units) : units[i] = unit) - 1

\* C30: for a whole speed v >= 0, formatSpeed takes k steps to the k-th
\* unit, where a step is taken exactly while the value is greater than 1024
\* and a larger unit remains (so v > 1024^k when k > 0, and v <= 1024^(k+1)
\* unless the unit is GB/s); it prints v / 1024^k to the nearest hundredth;
\* and the number printed is at most 1024 unless the unit is GB/s.
C30_SpeedScales ==
    (fmt.step = "done" /\ fmt.fn = "formatSpeed") =>
        LET a == fmt.input.num
            e == fmt.input.exp
            k == StepsOf(fmt.output.unit)
            printed == fmt.output.number
        IN  /\ k > 0 => ~LeqPow1024(a, e, k)
            /\ k < Len(units) - 1 => LeqPow1024(a, e, k + 1)
            /\ IF e >= k
               THEN printed = [hundredths |-> 100 * a, exp |-> e - k]
               ELSE LET D == Pow1024(k - e)
                        q == (100 * a) \div D
                        r == (100 * a) % D
                    IN  /\ printed.exp = 0
                        /\ printed.hundredths \in {q, q + 1}
                        /\ printed.hundredths = q => 2 * r < D
                        /\ printed.hundredths = q + 1 => 2 * r >= D
            /\ k < Len(units) - 1 =>
                  \/ printed.exp = 0 /\ printed.hundredths <= 102400
                  \/ printed.exp = 1 /\ printed.hundredths <= 100

\* formatSpeed(1536) has returned "1.50 KB/s".
C30_Witness ==
    /\ fmt.step = "done"
    /\ fmt.fn = "formatSpeed"
    /\ fmt.input = Big(1536, 0)
    /\ fmt.output = [number |-> [hundredths |-> 150, exp |-> 0],
                     unit |-> "KB/s"]

\* C31: over the HTTP transport a request for an offset above 0 carries
\* Range: bytes=<offset>-, and a full-content (200) answer to such a request
\* fails the transfer with RangeUnsupportedError and writes nothing to the
\* local file; a full-content answer is gone on with only at offset 0.
C31_FullContentToRangeFails ==
    http.step \in {"requested", "answered", "done"} =>
        /\ (http.offset > 0 /\ http.outcome # "skipped")
              => http.range = RangeFrom(http.offset)
        /\ (http.status = 200 /\ http.offset > 0)
              => /\ http.file = http.file0
                 /\ http.outcome \in {"pending", "RangeUnsupportedError"}
                 /\ http.step = "done" => http.outcome = "RangeUnsupportedError"

NetworkClassOr5xx(error) ==
    ~error.response \/ (error.status >= 500 /\ error.status <= 599)

\* A catalog request is attempted at most `total` times, exactly `total`
\* times when it has failed for good with a network-class or 5xx error; the
\* k-th retry is sent no earlier than k seconds after the failure before
\* it; and every failure that was followed by a retry was network-class or
\* 5xx.
RetryPolicy(total) ==
    req.step # "none" =>
        /\ Len(req.sentAt) <= total
        /\ (req.step = "failed"
              /\ NetworkClassOr5xx(req.errors[Len(req.errors)]))
                => Len(req.sentAt) = total
        /\ \A n \in 1..(Len(req.sentAt) - 1) :
              /\ req.sentAt[n + 1] - req.failedAt[n] >= n * 1000
              /\ NetworkClassOr5xx(req.errors[n])

\* C32 (as claimed): three attempts in all.
C32_ThreeAttempts == RetryPolicy(3)

\* C32 (amended): `retries` = 3 retries after the first attempt, four
\* attempts in all, with waits of 1 s, 2 s and 3 s; a failure that is
\* neither network-class nor 5xx is never retried.
C32_FourAttempts == RetryPolicy(retries + 1)

\* A request has failed for good after its third retry, each retry sent as
\* soon as its wait was over.
C32_Witness ==
    /\ req.step = "failed"
    /\ req.sentAt = <<0, 1000, 3000, 6000>>
    /\ NetworkClassOr5xx(req.errors[4])

\* C33: activeChunks stays within 0..MAX_CONCURRENT_CHUNKS in every
\* reachable state, with and without the rate limiter.
C33_ActiveChunksInRange ==
    activeChunks >= 0 /\ activeChunks <= MAX_CONCURRENT_CHUNKS

\* The handlers have paused the read stream, which has neither ended nor
\* failed, and the connection is up.
PausedByPipeline ==
    /\ pc = "streaming"
    /\ conn = "open"
    /\ rs.created /\ ~rs.flowing /\ ~rs.ended /\ ~rs.destroyed
    /\ ~ws.destroyed /\ ~ws.errored

\* The write stream owes a 'drain': a write() has returned false and the
\* queue has not emptied since.
DrainPending == ws.needDrain /\ ws.buf # <<>> /\ ~ws.ending

\* C34: whenever the handlers have paused the read stream and the transport
\* has neither ended nor failed, a 'drain' of the write stream is pending.
C34_PausedMeansDrainPending ==
    PausedByPipeline => DrainPending

\* The local file is absent or holds a prefix of the remote object.
LocalIsPrefix == IsPrefix(disk.bytes, Remote(remoteSize))

\* C35: a local file that is absent or holds a prefix of the remote object
\* keeps holding a prefix of it in every step of a transfer (chunks reach
\* the file in transport order, without gaps or duplicates), and while the
\* streams of a call exist the file is no longer than transferred.
C35_FileStaysPrefix ==
    [][LocalIsPrefix =>
         /\ LocalIsPrefix'
         /\ rs'.created => Len(disk'.bytes) <= transferred']_vars

\* C36: when the remote existence check fails, the call has changed nothing
\* on the local side. No step taken before or at the check, and no step
\* taken after the handler threw at the check, creates the local directory
\* or creates, truncates or writes the local file, and no local stream was
\* opened by then.
BeforeLocalWork == pc \in {"connecting", "sftp", "stat1"}
RemoteCheckFailed == thrownAt = "stat1"
RECURSIVE LastLate(_)
LastLate(n) ==
    IF n = 0 THEN 0 ELSE IF PushedLate(n) THEN n ELSE LastLate(n - 1)

\* The blocks of the chunks handed to _transform since out[n] was pushed:
\* the chunks pushed after it and the chunk held on the timer.
CountedSince(n) ==
    PushedBlocks(n + 1, Len(lim.out))
      + (IF lim.held = <<>> THEN 0 ELSE Head(lim.held).len)

\* C37: the ThrottledStream sets lastCheck to the time of the push and
\* bytesThisPeriod to 0 exactly when the timer callback pushes a chunk that
\* was delayed. lastCheck is the time of the latest delayed push (the time
\* of construction when there was none) and bytesThisPeriod the blocks
\* handed to _transform since; the timer callback of the held chunk pushes
\* it and leaves lastCheck = now and bytesThisPeriod = 0; a _transform that
\* pushes its chunk at once leaves lastCheck alone and adds the length of
\* the chunk to bytesThisPeriod.
C37_WindowResetOnDelayedPush ==
    Throttling =>
        /\ lim.lastCheck = (IF LastLate(Len(lim.out)) = 0 THEN 0
                            ELSE lim.out[LastLate(Len(lim.out))].at)
        /\ lim.bytesThisPeriod = CountedSince(LastLate(Len(lim.out)))
        /\ lim.held # <<>> =>
              LET after == TimerCallback(lim)
              IN  /\ after.lastCheck = lim.now
                  /\ after.bytesThisPeriod = 0
                  /\ Len(after.out) = Len(lim.out) + 1
                  /\ after.out[Len(after.out)].id = Head(lim.held).id
                  /\ after.out[Len(after.out)].at = lim.now
        /\ lim.held = <<>> =>
              \A len \in 1..CHUNK_SIZE :
                  LET chunk == [id |-> Len(lim.input) + 1, len |-> len]
                      after == Transform(lim, chunk)
                  IN  /\ after.lastCheck = lim.lastCheck
                      /\ after.bytesThisPeriod = lim.bytesThisPeriod + len
                      /\ \/ after.held = <<>> /\ Len(after.out) = Len(lim.out) + 1
                         \/ after.held = <<chunk>> /\ after.out = lim.out

\* C37 witness: a chunk pushed after a delay, then a chunk pushed at once in
\* the window the delayed push opened, which holds the blocks of the second
\* chunk only.
C37_Witness ==
    /\ Throttling
    /\ lim.held = <<>>
    /\ Len(lim.out) >= 2
    /\ PushedLate(Len(lim.out) - 1)
    /\ PushedAtOnce(Len(lim.out))
    /\ lim.lastCheck = lim.out[Len(lim.out) - 1].at
    /\ lim.lastCheck > 0
    /\ lim.bytesThisPeriod = lim.out[Len(lim.out)].len

\* C38: every speed sample taken is strictly positive and so is the mean
\* avgSpeed, so that the ETA is a number and never the result of a division
\* by 0. A sample is taken by the handler of a chunk, after the length of
\* the chunk was added to transferred (the sample covers at least that
\* chunk), and exactly when 1000 ms or more have passed since the last
\* sample: a chunk that took none arrived less than 1000 ms after it.
C38_SamplesPositive ==
    meter.step = "run" =>
        /\ \A i \in 1..Len(meter.history) :
              meter.history[i].num > 0 /\ meter.history[i].den > 0
        /\ meter.sampled =>
              /\ meter.avgSpeed.num > 0 /\ meter.avgSpeed.den > 0
              /\ meter.eta.kind = "number"
              /\ meter.ticked > 0
              /\ meter.lastTransferred = meter.transferred
              /\ meter.lastTime = meter.now
        /\ ~meter.sampled => meter.now - meter.lastTime < 1000
        /\ \A dt \in {500, 1000} :
              LET after == Sample(meter, 1, dt)
              IN  /\ after.sampled <=> (meter.now + dt) - meter.lastTime >= 1000
                  /\ after.sampled =>
                        after.history[Len(after.history)]
                            = currentSpeed(meter.transferred + 1
                                             - meter.lastTransferred,
                                           (meter.now + dt) - meter.lastTime)

\* C38 witness: a sample taken by the second of two chunks that arrived
\* within one second, after an earlier sample of another speed.
C38_Witness ==
    /\ meter.step = "run"
    /\ meter.sampled
    /\ meter.ticked = 2
    /\ Len(meter.history) >= 2
    /\ meter.history[Len(meter.history)].num > 0
    /\ meter.avgSpeed # meter.history[Len(meter.history)]
    /\ meter.avgSpeed.num > 0

====
